---- MODULE Spec2Model ----
(***************************************************************************)
(* Model of src/plugins/stylesheet/SassPlugin.ts (fuse-box).               *)
(*                                                                         *)
(* Two parts, three specifications (Spec, SpecImporter, SpecInliner):       *)
(*   - the transform pipeline (SassPluginClass.transform), one task per    *)
(*     file, run-to-completion between suspension points, the only         *)
(*     suspension being the sass.render callback, during which the         *)
(*     compiler may call the built-in import hook (SpecImporter);          *)
(*   - the textual import inliner (SassPluginClass.read / fetchFile), a    *)
(*     pure function of the file system and the working directory.         *)
(*                                                                         *)
(* Strings are sequences of tokens.  A token is an atomic piece of text    *)
(* ("/", ".scss", "@import", " ", a name...); every pattern the code       *)
(* searches for is a sequence of whole tokens, so substring search,        *)
(* replace, trim and slice on token sequences act as they do on the        *)
(* JavaScript strings.                                                     *)
(***************************************************************************)
EXTENDS Integers, Sequences, FiniteSets, TLC

VARIABLES
    \* ---- the plugin instance and module-level state
    options,            \* this.options (SassPluginOptions), fixed at construction
    sass,               \* module-level handle: TRUE once require("node-sass") ran
    sassResources,      \* module-level resources prelude
    useCache,           \* context.useCache
    cache,              \* context.cache: the static cache entry per file
    \* ---- the file objects handed to transform
    pc,                 \* position of each file's transform
    contents,           \* file.contents
    sourceMap,          \* file.sourceMap
    errors,             \* the file's error list (file.addError)
    dependencies,       \* file.analysis.dependencies
    cssDependencies,    \* file.cssDependencies
    bustCSSCache,       \* file.bustCSSCache
    stringDependencies, \* what file.addStringDependency registered
    promise,            \* what transform returned and its settlement
    renderOptions,      \* the options object of the file's sass.render call
    delivered,          \* the arguments of the render callback (err, result)
    imported,           \* the last call of the built-in import hook
    active,             \* the file whose synchronous code is running, or NoFile
    \* ---- observation of one pass
    cached,             \* what isCSSCached answered in this pass
    renderCalls,        \* calls of sass.render in this pass
    extractCalls,       \* calls of extractCSSDependencies in this pass
    steps,              \* the steps of this pass, in the order they ran
    before,             \* the file's fields when transform was entered
    passes,             \* number of transforms started for the file
    \* ---- the import inliner
    cwd,                \* process.cwd()
    disk,               \* the file system: absolute path -> entry
    call                \* the last read / fetchFile call and its outcome

vars == << options, sass, sassResources, useCache, cache, pc, contents, sourceMap,
           errors, dependencies, cssDependencies, bustCSSCache, stringDependencies,
           promise, renderOptions, delivered, imported, active, cached,
           renderCalls, extractCalls, steps, before, passes, cwd, disk, call >>

pluginVars == << options, sass, sassResources, useCache, cache, pc, contents,
                 sourceMap, errors, dependencies, cssDependencies, bustCSSCache,
                 stringDependencies, promise, renderOptions, delivered, imported,
                 active, cached, renderCalls, extractCalls, steps, before,
                 passes >>

inlinerVars == << cwd, disk, call >>

(***************************************************************************)
(* Bounds                                                                  *)
(***************************************************************************)
MaxPasses == 2

MaxDepth == 4

(***************************************************************************)
(* Text helpers: JavaScript string operations on token sequences           *)
(***************************************************************************)
\* the value of an absent text (undefined)
NoText == << "<undefined>" >>

\* the value of an absent list (undefined)
NoList == << << "<undefined>" >> >>

Digit(d) ==
    CASE d = 0 -> "0" [] d = 1 -> "1" [] d = 2 -> "2" [] d = 3 -> "3" [] d = 4 -> "4"
      [] d = 5 -> "5" [] d = 6 -> "6" [] d = 7 -> "7" [] d = 8 -> "8" [] d = 9 -> "9"

RECURSIVE NumberToString(_)
\* `${n}` for a non-negative integer: its decimal digits
NumberToString(n) ==
    IF n < 10 THEN << Digit(n) >>
    ELSE NumberToString(n \div 10) \o << Digit(n % 10) >>

\* s.slice(from) with 1-based from
Drop(s, n) == IF n >= Len(s) THEN << >> ELSE SubSeq(s, n + 1, Len(s))

Take(s, n) == IF n <= 0 THEN << >> ELSE SubSeq(s, 1, IF n > Len(s) THEN Len(s) ELSE n)

\* whether pat occurs in s at position i
OccursAt(s, pat, i) ==
    /\ i >= 1
    /\ i + Len(pat) - 1 <= Len(s)
    /\ \A k \in 1..Len(pat) : s[i + k - 1] = pat[k]

\* s.indexOf(pat), 1-based; 0 when absent
IndexOf(s, pat) ==
    IF \E i \in 1..(Len(s) + 1) : OccursAt(s, pat, i)
    THEN CHOOSE i \in 1..(Len(s) + 1) :
            /\ OccursAt(s, pat, i)
            /\ \A j \in 1..(i - 1) : ~OccursAt(s, pat, j)
    ELSE 0

\* s.replace(pat, rep) with a string pattern: the first occurrence only
ReplaceFirst(s, pat, rep) ==
    LET i == IndexOf(s, pat) IN
    IF i = 0 THEN s
    ELSE Take(s, i - 1) \o rep \o Drop(s, i + Len(pat) - 1)

\* the least index from i on whose character is in set; Len(s) + 1 when none
NextIn(s, i, set) ==
    LET hits == { k \in i..Len(s) : s[k] \in set } IN
    IF hits = { } THEN Len(s) + 1
    ELSE CHOOSE k \in hits : \A h \in hits : k <= h

\* the least index from i on whose character is not in set
NextNotIn(s, i, set) ==
    LET hits == { k \in i..Len(s) : s[k] \notin set } IN
    IF hits = { } THEN Len(s) + 1
    ELSE CHOOSE k \in hits : \A h \in hits : k <= h

\* the index of the last "/" of s; 0 when there is none
LastSlash(s) ==
    LET hits == { k \in 1..Len(s) : s[k] = "/" } IN
    IF hits = { } THEN 0 ELSE CHOOSE k \in hits : \A h \in hits : k >= h

RECURSIVE Split(_)
\* s.split('/')
Split(s) ==
    LET k == NextIn(s, 1, { "/" }) IN
    IF k > Len(s) THEN << s >>
    ELSE << Take(s, k - 1) >> \o Split(Drop(s, k))

RECURSIVE Join(_)
\* segments.join('/')
Join(segments) ==
    IF segments = << >> THEN << >>
    ELSE IF Len(segments) = 1 THEN segments[1]
    ELSE segments[1] \o << "/" >> \o Join(Tail(segments))

RECURSIVE Resolved(_, _, _)
\* the segments of a path with "", "." and ".." worked out (path.normalize)
Resolved(segments, done, absolute) ==
    IF segments = << >> THEN done
    ELSE LET seg == Head(segments) IN
         Resolved(Tail(segments),
                  IF seg = << >> \/ seg = << "." >> THEN done
                  ELSE IF seg = << ".", "." >>
                       THEN IF done # << >> /\ done[Len(done)] # << ".", "." >>
                            THEN SubSeq(done, 1, Len(done) - 1)
                            ELSE IF absolute THEN done ELSE Append(done, seg)
                  ELSE Append(done, seg),
                  absolute)

\* path.normalize(p) on POSIX
Normalize(p) ==
    IF p = << >> THEN << "." >>
    ELSE LET absolute == p[1] = "/"
             trailing == p[Len(p)] = "/"
             body     == Join(Resolved(Split(p), << >>, absolute))
         IN IF body = << >>
            THEN IF absolute THEN << "/" >>
                 ELSE IF trailing THEN << ".", "/" >> ELSE << "." >>
            ELSE (IF absolute THEN << "/" >> ELSE << >>) \o body
                     \o (IF trailing THEN << "/" >> ELSE << >>)

\* path.join(a, b) for non-empty a and b
PathJoin(a, b) == Normalize(a \o << "/" >> \o b)

(***************************************************************************)
(* The host's file objects (core/File) and context, as transform uses them *)
(***************************************************************************)
Files == { "f1", "f2" }

NoFile == "none"

\* context.homeDir
HomeDir == << "/", "w" >>

\* context.appRoot
AppRoot == << "/", "w", "/", "app" >>

\* Config.NODE_MODULES_DIR
NodeModulesDir == << "/", "w", "/", "node_modules" >>

\* file.info.fuseBoxPath
FuseBoxPath(f) ==
    IF f = "f1" THEN << "a", ".scss" >> ELSE << "s", "/", "b", ".scss" >>

\* file.info.absDir
AbsDir(f) == IF f = "f1" THEN HomeDir ELSE HomeDir \o << "/", "s" >>

\* file.absPath
AbsPath(f) == HomeDir \o << "/" >> \o FuseBoxPath(f)

\* what file.loadContents() can find on disk for the file
Sources(f) ==
    IF f = "f1" THEN { << >>, << "a", "{", "}" >> }
    ELSE { << >>, << "b", "{", "}" >> }

\* errors an earlier stage of the host may have put on the file
PriorErrors == { << >>, << << "earlier" >> >> }

\* the records the dependency-extraction collaborator may return
DependencyRecords == { << >>, << << "/", "w", "/", "p", ".scss" >> >> }

\* the errors the external compiler may report
CompileErrors ==
    { [message |-> << "Undefined variable" >>, file |-> << "stdin" >>,
       line |-> 3, column |-> 14],
      [message |-> << "Invalid CSS" >>, file |-> << "/", "w", "/", "p", ".scss" >>,
       line |-> 12, column |-> 1] }

(***************************************************************************)
(* Plugin configurations (SassPluginOptions)                               *)
(***************************************************************************)
\* the value of absent macros (undefined)
NoMacros == << << NoText, NoText, NoText >> >>

PluginOptions ==
    { [includePaths |-> NoList, macros |-> NoMacros, importer |-> "undefined",
       indentedSyntax |-> FALSE, resources |-> NoList],
      [includePaths |-> << << "/", "inc" >> >>,
       macros |-> << << << "$lib" >>, << "/", "lib" >> >>,
                     << << "~" >>, << "/", "mods", "/" >> >> >>,
       importer |-> "true", indentedSyntax |-> FALSE,
       resources |-> << << "/", "w", "/", "r", ".scss" >> >>],
      [includePaths |-> << << "/", "inc" >>, << "/", "inc2" >> >>,
       macros |-> << << << "~" >>, << "/", "mods", "/" >> >> >>,
       importer |-> "function", indentedSyntax |-> TRUE, resources |-> NoList] }

\* the key of pair number i, or position 0 when key is absent
KeyIndex(table, key) ==
    IF \E i \in 1..Len(table) : table[i][1] = key
    THEN CHOOSE i \in 1..Len(table) : table[i][1] = key
    ELSE 0

RECURSIVE ObjectAssign(_, _)
\* Object.assign(target, source) on ordered key/value tables: an existing key
\* keeps its place and takes the new value, a new key is appended
ObjectAssign(target, source) ==
    IF source = << >> THEN target
    ELSE LET kv == Head(source)
             i  == KeyIndex(target, kv[1])
         IN ObjectAssign(IF i = 0 THEN Append(target, kv)
                         ELSE [target EXCEPT ![i] = kv],
                         Tail(source))

\* const defaultMacro = {...}
DefaultMacro ==
    << << << "$homeDir" >>, HomeDir >>,
       << << "$appRoot" >>, AppRoot >>,
       << << "~" >>, NodeModulesDir \o << "/" >> >> >>

\* the options object before a transform built one
NoOptions ==
    [data |-> NoText, file |-> NoText, outFile |-> NoText, includePaths |-> NoList,
     macros |-> NoMacros, importer |-> "undefined", indentedSyntax |-> FALSE]

\* the options object transform assembles for the file
Options(f) ==
    [data |-> IF sassResources # NoText THEN sassResources \o contents[f]
              ELSE contents[f],
     file |-> HomeDir \o << "/" >> \o FuseBoxPath(f),
     outFile |-> FuseBoxPath(f),
     includePaths |-> (IF options.includePaths # NoList THEN options.includePaths
                       ELSE << >>) \o << AbsDir(f) >>,
     macros |-> ObjectAssign(DefaultMacro,
                             IF options.macros # NoMacros THEN options.macros
                             ELSE << >>),
     importer |-> IF options.importer = "true" THEN "builtin" ELSE options.importer,
     indentedSyntax |-> options.indentedSyntax]

\* what the external compiler reports on success for an options object
Compile(o) ==
    [css |-> << "css(" >> \o o.data \o << ")" >>,
     map |-> << "map(" >> \o o.file \o << ")" >>]

\* /https?:/.test(url): the text http: or https: stands somewhere in the url
IsExternal(url) == \E k \in 1..Len(url) : url[k] \in { "http:", "https:" }

RECURSIVE ReplaceMacros(_, _)
\* for (let key in options.macros) { url = url.replace(key, options.macros[key]) }
ReplaceMacros(url, macros) ==
    IF macros = << >> THEN url
    ELSE ReplaceMacros(ReplaceFirst(url, Head(macros)[1], Head(macros)[2]),
                       Tail(macros))

\* what context.extensionOverrides.getPathOverride may answer for a path;
\* NoText when it has no override or the context has no overrides at all
PathOverrides == { NoText, << "/", "o", "/", "x.scss" >> }

\* the urls the compiler asks the hook about
Urls ==
    { << "http:", "/", "/", "cdn", "/", "~", "x.css" >>,
      << "https:", "/", "/", "cdn", "/", "x.css" >>,
      << "~", "lib", "/", ".", ".", "/", "x.scss" >>,
      << "$homeDir", "/", "$lib", "/", ".", "/", "y.scss" >>,
      << "$appRoot", "/", "/", "z.scss" >>,
      << "$lib", "/", "http:", "x.scss" >> }

\* the hook has not been called
NoImport ==
    [file |-> NoFile, url |-> NoText, override |-> NoText, key |-> "none",
     value |-> NoText]

\* options.importer = (url, prev, done) => {...}: lines 136-154; key and
\* value are the object handed to done
Importer(o, url, override) ==
    IF IsExternal(url) THEN [key |-> "url", value |-> url]
    ELSE LET file == Normalize(ReplaceMacros(url, o.macros)) IN
         [key |-> "file", value |-> IF override # NoText THEN override ELSE file]

\* the callback arguments before the callback fired
NotDelivered ==
    [kind |-> "none", message |-> NoText, file |-> NoText, line |-> 0, column |-> 0,
     css |-> NoText, map |-> NoText]

ErrorDelivered(e) ==
    [kind |-> "error", message |-> e.message, file |-> e.file, line |-> e.line,
     column |-> e.column, css |-> NoText, map |-> NoText]

SuccessDelivered(r) ==
    [kind |-> "success", message |-> NoText, file |-> NoText, line |-> 0,
     column |-> 0, css |-> r.css, map |-> r.map]

\* the static cache holds no entry for the file
NoEntry == [contents |-> NoText, sourceMap |-> NoText, dependencies |-> NoList]

\* the fields of the file object a pass can be compared against
Snapshot(f) ==
    [contents |-> contents[f], sourceMap |-> sourceMap[f], errors |-> errors[f],
     dependencies |-> dependencies[f], cssDependencies |-> cssDependencies[f],
     bustCSSCache |-> bustCSSCache[f],
     stringDependencies |-> stringDependencies[f]]

(***************************************************************************)
(* transform(file): the pipeline of one file                               *)
(*                                                                         *)
(* JavaScript runs a task to completion: while `active` names a file, only *)
(* that file's next statement can run.  transform suspends once, between   *)
(* the call of sass.render and its callback.  The statements are separate  *)
(* steps so that the states in between can be observed.                    *)
(***************************************************************************)
\* a mutant: the compiler is invoked before the dependencies are extracted
Continue_RenderFirst(at) ==
    CASE at = "transform"              -> "isCSSCached"
      [] at = "isCSSCached"            -> "loadContents"
      [] at = "loadContents"           -> "buildOptions"
      [] at = "buildOptions"           -> "render"
      [] at = "render"                 -> "extractCSSDependencies"
      [] at = "extractCSSDependencies" -> "waiting"

\* the statement order of transform: where control goes after a statement
\* that falls through
Continue(at) ==
    CASE at = "transform"              -> "isCSSCached"
      [] at = "isCSSCached"            -> "loadContents"
      [] at = "loadContents"           -> "buildOptions"
      [] at = "buildOptions"           -> "extractCSSDependencies"
      [] at = "extractCSSDependencies" -> "render"
      [] at = "render"                 -> "waiting"

\* the task keeps the thread until it returns or suspends
Holds(f, next) ==
    IF next \in { "waiting", "returned", "resolved" } THEN NoFile ELSE f

\* file.addStringDependency(name), host code: registers a package the bundle
\* needs; it is kept apart from the file's analysis.dependencies
AddStringDependency(f, name) ==
    stringDependencies' = [stringDependencies EXCEPT ![f] = @ \cup { name }]

\* transform is entered: lines 96-97
Transform(f) ==
    /\ pc[f] = "idle"
    /\ active = NoFile
    /\ passes[f] < MaxPasses
    /\ AddStringDependency(f, "fuse-box-css")
    /\ before' = [before EXCEPT ![f] = Snapshot(f)]
    /\ passes' = [passes EXCEPT ![f] = @ + 1]
    /\ pc' = [pc EXCEPT ![f] = Continue("transform")]
    /\ active' = Holds(f, Continue("transform"))
    /\ UNCHANGED << inlinerVars, imported, options, sass, sassResources, useCache, cache, contents,
                    sourceMap, errors, dependencies, cssDependencies, bustCSSCache,
                    promise, renderOptions, delivered, cached, renderCalls,
                    extractCalls, steps >>

\* a mutant: the answer of the cache check is not acted on
CacheGate_Ignored(hit) == FALSE

\* if (file.isCSSCached("sass")) { return; }: whether transform returns here
CacheGate(hit) == hit

\* a mutant: the flag is set before the answer is looked at
BustCSSCache_Always(f, hit) == TRUE

\* a mutant: the flag is never set
BustCSSCache_Never(f, hit) == bustCSSCache[f]

\* file.bustCSSCache = true, the statement after the return of the hit branch:
\* the flag once the check was made
BustCSSCache(f, hit) == IF hit THEN bustCSSCache[f] ELSE TRUE

\* lines 99-102; the answer is the cache collaborator's, a read-only check
IsCSSCached(f) ==
    /\ pc[f] = "isCSSCached"
    /\ active = f
    /\ \E hit \in BOOLEAN :
         /\ cached' = [cached EXCEPT ![f] = IF hit THEN "hit" ELSE "miss"]
         /\ bustCSSCache' = [bustCSSCache EXCEPT ![f] = BustCSSCache(f, hit)]
         /\ IF CacheGate(hit)
            THEN /\ pc' = [pc EXCEPT ![f] = "returned"]
                 /\ active' = NoFile
                 /\ promise' = [promise EXCEPT ![f] = "undefined"]
            ELSE /\ pc' = [pc EXCEPT ![f] = Continue("isCSSCached")]
                 /\ active' = Holds(f, Continue("isCSSCached"))
                 /\ UNCHANGED promise
    /\ steps' = [steps EXCEPT ![f] = Append(@, "cacheCheck")]
    /\ UNCHANGED << inlinerVars, imported, options, sass, sassResources, useCache, cache,
                    contents, sourceMap, errors, dependencies, cssDependencies,
                    stringDependencies, renderOptions, delivered, renderCalls,
                    extractCalls, before, passes >>

\* file.loadContents(); if (!file.contents) return;
LoadContents(f) ==
    /\ pc[f] = "loadContents"
    /\ active = f
    /\ \E text \in Sources(f) :
         /\ contents' = [contents EXCEPT ![f] = text]
         /\ IF text = << >>
            THEN /\ pc' = [pc EXCEPT ![f] = "returned"]
                 /\ active' = NoFile
                 /\ promise' = [promise EXCEPT ![f] = "undefined"]
            ELSE /\ pc' = [pc EXCEPT ![f] = Continue("loadContents")]
                 /\ active' = Holds(f, Continue("loadContents"))
                 /\ UNCHANGED promise
    /\ steps' = [steps EXCEPT ![f] = Append(@, "loadContents")]
    /\ UNCHANGED << inlinerVars, imported, options, sass, sassResources, useCache, cache, sourceMap, errors,
                    dependencies, cssDependencies, bustCSSCache, stringDependencies,
                    renderOptions, delivered, cached, renderCalls, extractCalls,
                    before, passes >>

\* a mutant: the list of the configuration itself is used and pushed on
\* (options.includePaths = this.options.includePaths || [])
BuildOptions_SharedList(f) ==
    /\ pc[f] = "buildOptions"
    /\ active = f
    /\ sass' = TRUE
    /\ options' = [options EXCEPT !.includePaths = Options(f).includePaths]
    /\ renderOptions' = [renderOptions EXCEPT ![f] = Options(f)]
    /\ pc' = [pc EXCEPT ![f] = Continue("buildOptions")]
    /\ active' = Holds(f, Continue("buildOptions"))
    /\ UNCHANGED << inlinerVars, imported, sassResources, useCache, cache, contents, sourceMap,
                    errors, dependencies, cssDependencies, bustCSSCache,
                    stringDependencies, promise, delivered, cached, renderCalls,
                    extractCalls, steps, before, passes >>

\* lines 108-157: the compiler module is loaded once, the options are assembled
BuildOptions(f) ==
    /\ pc[f] = "buildOptions"
    /\ active = f
    /\ sass' = TRUE
    /\ renderOptions' = [renderOptions EXCEPT ![f] = Options(f)]
    /\ pc' = [pc EXCEPT ![f] = Continue("buildOptions")]
    /\ active' = Holds(f, Continue("buildOptions"))
    /\ UNCHANGED << inlinerVars, imported, options, sassResources, useCache, cache, contents, sourceMap,
                    errors, dependencies, cssDependencies, bustCSSCache,
                    stringDependencies, promise, delivered, cached, renderCalls,
                    extractCalls, steps, before, passes >>

\* file.cssDependencies = file.context.extractCSSDependencies(file, {...})
ExtractCSSDependencies(f) ==
    /\ pc[f] = "extractCSSDependencies"
    /\ active = f
    /\ \E record \in DependencyRecords :
         cssDependencies' = [cssDependencies EXCEPT ![f] = record]
    /\ extractCalls' = [extractCalls EXCEPT ![f] = @ + 1]
    /\ steps' = [steps EXCEPT ![f] = Append(@, "extractCSSDependencies")]
    /\ pc' = [pc EXCEPT ![f] = Continue("extractCSSDependencies")]
    /\ active' = Holds(f, Continue("extractCSSDependencies"))
    /\ UNCHANGED << inlinerVars, imported, options, sass, sassResources, useCache, cache, contents,
                    sourceMap, errors, dependencies, bustCSSCache,
                    stringDependencies, promise, renderOptions, delivered, cached,
                    renderCalls, before, passes >>

\* return new Promise(... sass.render(options, callback) ...)
Render(f) ==
    /\ pc[f] = "render"
    /\ active = f
    /\ renderCalls' = [renderCalls EXCEPT ![f] = @ + 1]
    /\ promise' = [promise EXCEPT ![f] = "pending"]
    /\ steps' = [steps EXCEPT ![f] = Append(@, "render")]
    /\ pc' = [pc EXCEPT ![f] = Continue("render")]
    /\ active' = Holds(f, Continue("render"))
    /\ UNCHANGED << inlinerVars, imported, options, sass, sassResources, useCache, cache, contents,
                    sourceMap, errors, dependencies, cssDependencies, bustCSSCache,
                    stringDependencies, renderOptions, delivered, cached,
                    extractCalls, before, passes >>

\* the compiler, at work on the file, asks the built-in hook about a url
ImporterCall(f) ==
    /\ pc[f] = "waiting"
    /\ active = NoFile
    /\ renderOptions[f].importer = "builtin"
    /\ \E url \in Urls, override \in PathOverrides :
       \E done \in { Importer(renderOptions[f], url, override) } :
         imported' = [file |-> f, url |-> url, override |-> override,
                      key |-> done.key, value |-> done.value]
    /\ UNCHANGED << inlinerVars, options, sass, sassResources, useCache, cache, pc,
                    contents, sourceMap, errors, dependencies, cssDependencies,
                    bustCSSCache, stringDependencies, promise, renderOptions,
                    delivered, active, cached, renderCalls, extractCalls, steps,
                    before, passes >>

\* the callback of sass.render fires, once, with an error or with the result
\* of the compile of the options object it was called with
RenderCallback(f) ==
    /\ pc[f] = "waiting"
    /\ active = NoFile
    /\ \E outcome \in { ErrorDelivered(e) : e \in CompileErrors }
                      \cup { SuccessDelivered(Compile(renderOptions[f])) } :
         /\ delivered' = [delivered EXCEPT ![f] = outcome]
         /\ pc' = [pc EXCEPT ![f] = IF outcome.kind = "error" THEN "applyError"
                                    ELSE "applySuccess"]
    /\ active' = f
    /\ steps' = [steps EXCEPT ![f] = Append(@, "callback")]
    /\ UNCHANGED << inlinerVars, imported, options, sass, sassResources, useCache, cache, contents,
                    sourceMap, errors, dependencies, cssDependencies, bustCSSCache,
                    stringDependencies, promise, renderOptions, cached, renderCalls,
                    extractCalls, before, passes >>

\* a mutant: the origin is always the one the compiler names
ErrorFile_AsReported(f, err) == err.file

\* const errorFile = err.file === 'stdin' ? file.absPath : err.file
ErrorFile(f, err) == IF err.file = << "stdin" >> THEN AbsPath(f) ELSE err.file

\* `${err.message}\n      at ${errorFile}:${err.line}:${err.column}`
ErrorMessage(f, err) ==
    err.message \o << "\n", "      at " >> \o ErrorFile(f, err) \o << ":" >>
        \o NumberToString(err.line) \o << ":" >> \o NumberToString(err.column)

\* the error branch of the callback: lines 169-174
ApplyError(f) ==
    /\ pc[f] = "applyError"
    /\ active = f
    /\ contents' = [contents EXCEPT ![f] = << >>]
    /\ errors' = [errors EXCEPT ![f] = Append(@, ErrorMessage(f, delivered[f]))]
    /\ promise' = [promise EXCEPT ![f] = "resolved"]
    /\ pc' = [pc EXCEPT ![f] = "resolved"]
    /\ active' = NoFile
    /\ steps' = [steps EXCEPT ![f] = Append(@, "apply")]
    /\ UNCHANGED << inlinerVars, imported, options, sass, sassResources, useCache, cache, sourceMap,
                    dependencies, cssDependencies, bustCSSCache, stringDependencies,
                    renderOptions, delivered, cached, renderCalls, extractCalls,
                    before, passes >>

\* a mutant: the file is kept in a variable shared by all transforms, so the
\* callback finds the file of a transform that started later
CallbackFile_Shared(f) ==
    IF \E g \in Files \ { f } : pc[g] = "waiting"
    THEN CHOOSE g \in Files \ { f } : pc[g] = "waiting"
    ELSE f

\* the file object the callback closes over: the parameter of its own transform
CallbackFile(f) == f

\* result.map && result.map.toString()
MapText(result) == IF result.map = NoText THEN NoText ELSE result.map

\* the success branch of the callback up to the cache write: lines 176-179
\* (and line 183 when the cache is off)
ApplySuccess(f) ==
    /\ pc[f] = "applySuccess"
    /\ active = f
    /\ LET file == CallbackFile(f) IN
         /\ sourceMap' = [sourceMap EXCEPT ![file] = MapText(delivered[f])]
         /\ contents' = [contents EXCEPT ![file] = delivered[f].css]
         /\ IF useCache
            THEN /\ dependencies' =
                        [dependencies EXCEPT ![file] = cssDependencies[f]]
                 /\ pc' = [pc EXCEPT ![f] = "writeStaticCache"]
                 /\ UNCHANGED << promise, active >>
            ELSE /\ promise' = [promise EXCEPT ![f] = "resolved"]
                 /\ pc' = [pc EXCEPT ![f] = "resolved"]
                 /\ active' = NoFile
                 /\ UNCHANGED dependencies
    /\ steps' = [steps EXCEPT ![f] = Append(@, "apply")]
    /\ UNCHANGED << inlinerVars, imported, options, sass, sassResources, useCache, cache, errors,
                    cssDependencies, bustCSSCache, stringDependencies, renderOptions,
                    delivered, cached, renderCalls, extractCalls, before, passes >>

\* a mutant: the dependencies are left on the file after the cache write
WriteStaticCache_NoReset(f) ==
    /\ pc[f] = "writeStaticCache"
    /\ active = f
    /\ cache' = [cache EXCEPT ![f] = [contents |-> contents[f],
                                      sourceMap |-> sourceMap[f],
                                      dependencies |-> dependencies[f]]]
    /\ promise' = [promise EXCEPT ![f] = "resolved"]
    /\ pc' = [pc EXCEPT ![f] = "resolved"]
    /\ active' = NoFile
    /\ UNCHANGED << inlinerVars, imported, options, sass, sassResources, useCache, contents, sourceMap,
                    errors, dependencies, cssDependencies, bustCSSCache,
                    stringDependencies, renderOptions, delivered, cached,
                    renderCalls, extractCalls, steps, before, passes >>

\* context.cache.writeStaticCache(file, file.sourceMap, "sass") persists the
\* file's contents, source map and dependencies; then
\* file.analysis.dependencies = []; return resolve(): lines 180-183
WriteStaticCache(f) ==
    /\ pc[f] = "writeStaticCache"
    /\ active = f
    /\ cache' = [cache EXCEPT ![f] = [contents |-> contents[f],
                                      sourceMap |-> sourceMap[f],
                                      dependencies |-> dependencies[f]]]
    /\ dependencies' = [dependencies EXCEPT ![f] = << >>]
    /\ promise' = [promise EXCEPT ![f] = "resolved"]
    /\ pc' = [pc EXCEPT ![f] = "resolved"]
    /\ active' = NoFile
    /\ UNCHANGED << inlinerVars, imported, options, sass, sassResources, useCache, contents, sourceMap,
                    errors, cssDependencies, bustCSSCache, stringDependencies,
                    renderOptions, delivered, cached, renderCalls, extractCalls,
                    steps, before, passes >>

\* the host makes a fresh file object for the next bundling pass
NewFile(f) ==
    /\ pc[f] \in { "returned", "resolved" }
    /\ active = NoFile
    /\ passes[f] < MaxPasses
    /\ \E prior \in PriorErrors : errors' = [errors EXCEPT ![f] = prior]
    /\ pc' = [pc EXCEPT ![f] = "idle"]
    /\ contents' = [contents EXCEPT ![f] = << >>]
    /\ sourceMap' = [sourceMap EXCEPT ![f] = NoText]
    /\ dependencies' = [dependencies EXCEPT ![f] = << >>]
    /\ cssDependencies' = [cssDependencies EXCEPT ![f] = << >>]
    /\ bustCSSCache' = [bustCSSCache EXCEPT ![f] = FALSE]
    /\ stringDependencies' = [stringDependencies EXCEPT ![f] = { }]
    /\ promise' = [promise EXCEPT ![f] = "none"]
    /\ renderOptions' = [renderOptions EXCEPT ![f] = NoOptions]
    /\ delivered' = [delivered EXCEPT ![f] = NotDelivered]
    /\ cached' = [cached EXCEPT ![f] = "unknown"]
    /\ renderCalls' = [renderCalls EXCEPT ![f] = 0]
    /\ extractCalls' = [extractCalls EXCEPT ![f] = 0]
    /\ steps' = [steps EXCEPT ![f] = << >>]
    /\ before' = [before EXCEPT ![f] = Snapshot(f)']
    /\ UNCHANGED << inlinerVars, imported, options, sass, sassResources, useCache, cache, active, passes >>

(***************************************************************************)
(* The plugin specification                                                *)
(***************************************************************************)
\* the import inliner at rest: no call was made
NoCall ==
    [op |-> "none", path |-> << >>, prefix |-> << >>, kind |-> "none",
     text |-> << >>, code |-> "", fetches |-> << >>, reads |-> << >>]

\* a file system without files
EmptyDisk == [p \in { } |-> << >>]

\* the state after the plugin was constructed and the host made the files
InitPlugin ==
    /\ options \in PluginOptions
    /\ sass = FALSE
    /\ sassResources = NoText
    /\ useCache \in BOOLEAN
    /\ cache = [f \in Files |-> NoEntry]
    /\ pc = [f \in Files |-> "idle"]
    /\ contents = [f \in Files |-> << >>]
    /\ sourceMap = [f \in Files |-> NoText]
    /\ errors = [f \in Files |-> << >>]
    /\ dependencies = [f \in Files |-> << >>]
    /\ cssDependencies = [f \in Files |-> << >>]
    /\ bustCSSCache = [f \in Files |-> FALSE]
    /\ stringDependencies = [f \in Files |-> { }]
    /\ promise = [f \in Files |-> "none"]
    /\ renderOptions = [f \in Files |-> NoOptions]
    /\ delivered = [f \in Files |-> NotDelivered]
    /\ imported = NoImport
    /\ active = NoFile
    /\ cached = [f \in Files |-> "unknown"]
    /\ renderCalls = [f \in Files |-> 0]
    /\ extractCalls = [f \in Files |-> 0]
    /\ steps = [f \in Files |-> << >>]
    /\ before = [f \in Files |-> Snapshot(f)]
    /\ passes = [f \in Files |-> 0]

Init ==
    /\ InitPlugin
    /\ cwd = HomeDir
    /\ disk = EmptyDisk
    /\ call = NoCall

Next ==
    \E f \in Files :
        \/ Transform(f)
        \/ IsCSSCached(f)
        \/ LoadContents(f)
        \/ BuildOptions(f)
        \/ ExtractCSSDependencies(f)
        \/ Render(f)
        \/ RenderCallback(f)
        \/ ApplyError(f)
        \/ ApplySuccess(f)
        \/ WriteStaticCache(f)
        \/ NewFile(f)

Spec == Init /\ [][Next]_vars

\* one transform of each file, with the compiler calling the import hook
\* while it is at work
NextImporter ==
    \E f \in Files :
        \/ Transform(f)
        \/ IsCSSCached(f)
        \/ LoadContents(f)
        \/ BuildOptions(f)
        \/ ExtractCSSDependencies(f)
        \/ Render(f)
        \/ ImporterCall(f)
        \/ RenderCallback(f)
        \/ ApplyError(f)
        \/ ApplySuccess(f)
        \/ WriteStaticCache(f)

SpecImporter == Init /\ [][NextImporter]_vars

(***************************************************************************)
(* The import inliner: strings                                             *)
(*                                                                         *)
(* Here a string is the sequence of its characters, because slice(1, -1)   *)
(* cuts single characters.  The one exception is the word "import" of the  *)
(* directive, kept as one element: no operation of the code cuts inside it.*)
(***************************************************************************)
\* \s of the regular expression, and what trim() removes
Whitespace == { " ", "\n", "\r", "\t" }

\* ".scss"
Scss == << ".", "s", "c", "s", "s" >>

\* ".sass"
Sass == << ".", "s", "a", "s", "s" >>

\* "@import" of importRegexp
AtImport == << "@", "import" >>

RECURSIVE TrimStart(_)
TrimStart(s) ==
    IF s # << >> /\ Head(s) \in Whitespace THEN TrimStart(Tail(s)) ELSE s

RECURSIVE TrimEnd(_)
TrimEnd(s) ==
    IF s # << >> /\ s[Len(s)] \in Whitespace
    THEN TrimEnd(SubSeq(s, 1, Len(s) - 1)) ELSE s

\* s.trim()
Trim(s) == TrimEnd(TrimStart(s))

\* s.slice(1, -1)
SliceInner(s) == IF Len(s) <= 2 THEN << >> ELSE SubSeq(s, 2, Len(s) - 1)

(***************************************************************************)
(* The import inliner: importRegexp, fetchFile, read                       *)
(***************************************************************************)
\* v handed to Body as a value: const x = v; Body(x)
Bind(v, Body(_)) == CHOOSE out \in { Body(x) : x \in { v } } : TRUE

\* where the match of importRegexp that starts at i ends; 0 when the pattern
\* does not match at i:  @import\s+(?:'([^']+)'|"([^"]+)"|([^\s;]+))
MatchEnd(s, i) ==
    IF ~OccursAt(s, AtImport, i) THEN 0
    ELSE LET j == i + Len(AtImport)
             k == NextNotIn(s, j, Whitespace)
             close == NextIn(s, k + 1, { s[k] })
         IN IF k = j \/ k > Len(s) THEN 0
            ELSE IF s[k] \in { "'", "\"" } /\ close <= Len(s) /\ close >= k + 2
                 THEN close
            ELSE IF s[k] = ";" THEN 0
            ELSE NextIn(s, k, Whitespace \cup { ";" }) - 1

RECURSIVE MatchesFrom(_, _)
\* the matches of the global pattern from index i on, left to right
MatchesFrom(s, i) ==
    IF i > Len(s) THEN << >>
    ELSE LET e == MatchEnd(s, i) IN
         IF e = 0 THEN MatchesFrom(s, i + 1)
         ELSE << SubSeq(s, i, e) >> \o MatchesFrom(s, e + 1)

\* currentContents.match(importRegexp): the matched statements (null is << >>)
Match(s) == MatchesFrom(s, 1)

\* the absolute path fs resolves a path to
Absolute(p) == IF p[1] = "/" THEN Normalize(p) ELSE PathJoin(cwd, p)

\* whether an absolute path names a directory of the file system
IsDirectory(abs) ==
    \/ abs = << "/" >>
    \/ \E q \in DOMAIN disk : OccursAt(q, abs \o << "/" >>, 1)

\* fs.readFileSync(p, 'utf8'): the text, or the code of the error thrown
ReadFileSync(p) ==
    IF p = << >> THEN [kind |-> "ENOENT", text |-> << >>]
    ELSE LET abs  == Absolute(p)
             bare == IF Len(abs) > 1 /\ abs[Len(abs)] = "/"
                     THEN SubSeq(abs, 1, Len(abs) - 1) ELSE abs
         IN IF bare \in DOMAIN disk
            THEN IF bare # abs THEN [kind |-> "ENOTDIR", text |-> << >>]
                 ELSE IF disk[bare].kind = "denied"
                      THEN [kind |-> "EACCES", text |-> << >>]
                 ELSE [kind |-> "file", text |-> disk[bare].text]
            ELSE IF IsDirectory(bare) THEN [kind |-> "EISDIR", text |-> << >>]
            ELSE [kind |-> "ENOENT", text |-> << >>]

\* path.replace('.scss', '.sass'): the path of the fallback read
FallbackPath(path) == ReplaceFirst(path, Scss, Sass)

\* fetchFile(path): lines 75-93.  attempts lists the paths handed to
\* readFileSync, in order
FetchFile(path) ==
    LET Fallback(second) ==
            [kind |-> "ok",
             text |-> IF second.kind = "file" THEN second.text ELSE << >>,
             code |-> "",
             attempts |-> << path, FallbackPath(path) >>]
        Direct(first) ==
            IF first.kind = "file"
            THEN [kind |-> "ok", text |-> first.text, code |-> "",
                  attempts |-> << path >>]
            ELSE IF first.kind = "ENOENT"
                 THEN Bind(ReadFileSync(FallbackPath(path)), Fallback)
            ELSE [kind |-> "throw", text |-> << >>, code |-> first.kind,
                  attempts |-> << path >>]
    IN Bind(ReadFileSync(path), Direct)

\* parts.join('/') after parts.pop(): the text before the last "/"
DirectoryPart(file) == Take(file, LastSlash(file) - 1)

\* fileName: the text after the last "/"
FileName(file) == Drop(file, LastSlash(file))

\* if (!fileName.includes('.')) { file += '.scss' }
WithExtension(file) ==
    IF \E k \in 1..Len(FileName(file)) : FileName(file)[k] = "."
    THEN file ELSE file \o Scss

\* importStatement.replace('@import ', '').trim().slice(1, -1) || ''
PathInImport(importStatement) ==
    SliceInner(Trim(ReplaceFirst(importStatement, AtImport \o << " " >>, << >>)))

\* parts.join('/').replace(process.cwd(), '')
DirectoryOfFile(file) == ReplaceFirst(DirectoryPart(file), cwd, << >>)

\* lines 59-64: the path handed to the recursive read
PathToRead(file, pathInImport) ==
    IF pathInImport # << >> /\ pathInImport[1] # "/"
    THEN PathJoin(cwd, << "/" >> \o DirectoryOfFile(file) \o << "/" >> \o pathInImport)
    ELSE pathInImport

\* line 66: the statement followed by ";" is cut out of the working text
RemoveStatement(currentContents, importStatement) ==
    Trim(ReplaceFirst(currentContents, importStatement \o << ";" >>, << >>))

\* line 67: the result of the replace is not assigned, the text is unchanged
StripLineBreaks(currentContents) == currentContents

\* line 68 with the two texts the wrong way round
AppendInlined_Before(currentContents, inlined) == inlined \o currentContents

\* line 68: currentContents = `${currentContents}${this.read(...)}`
AppendInlined(currentContents, inlined) == currentContents \o inlined

\* a failure turned into a normal return of the empty text
Thrown_Recovered(code, fetches, reads) ==
    [kind |-> "ok", text |-> << >>, code |-> "", fetches |-> fetches,
     reads |-> reads]

\* the outcome of a read that threw
Thrown(code, fetches, reads) ==
    [kind |-> "throw", text |-> << >>, code |-> code, fetches |-> fetches,
     reads |-> reads]

RECURSIVE Read(_, _, _, _)
RECURSIVE ForEachImport(_, _, _, _, _, _, _, _)
\* the forEach of lines 55-69 from statement number n on; cur is
\* currentContents, fetches and reads the logs so far
ForEachImport(file, accumulated, sassImports, n, cur, fetches, reads, depth) ==
    IF n > Len(sassImports)
    THEN [kind |-> "ok", text |-> cur, code |-> "", fetches |-> fetches,
          reads |-> reads]
    ELSE LET pathInImport == PathInImport(sassImports[n])
             pathToRead   == PathToRead(file, pathInImport)
             removed      == StripLineBreaks(RemoveStatement(cur, sassImports[n]))
             Rest(inner)  ==
                 IF inner.kind = "throw"
                 THEN Thrown(inner.code, fetches \o inner.fetches,
                             reads \o inner.reads)
                 ELSE ForEachImport(file, accumulated, sassImports, n + 1,
                                    AppendInlined(removed, inner.text),
                                    fetches \o inner.fetches,
                                    reads \o inner.reads, depth)
         IN Bind(Read(pathToRead, accumulated,
                      [from |-> file, target |-> pathInImport], depth - 1),
                 Rest)

\* read(file, contents): lines 43-73; accumulated is its parameter contents,
\* origin tells which import led here, depth is the room left on the call stack
Read(file, accumulated, origin, depth) ==
    LET named == WithExtension(file)
        entry == [file |-> named, from |-> origin.from, target |-> origin.target]
        Return(looped) ==
            IF looped.kind = "throw" THEN looped
            ELSE [looped EXCEPT !.text = accumulated \o looped.text]
        Scan(fetched) ==
            IF fetched.kind = "throw"
            THEN Thrown(fetched.code, fetched.attempts, << entry >>)
            ELSE Bind(ForEachImport(file, accumulated, Match(fetched.text), 1,
                                    fetched.text, fetched.attempts, << entry >>,
                                    depth),
                      Return)
    IN IF depth = 0 THEN Thrown("RangeError", << >>, << entry >>)
       ELSE Bind(FetchFile(named), Scan)

(***************************************************************************)
(* The inliner specification: a file system and a working directory are    *)
(* given, read and fetchFile are called on them                            *)
(***************************************************************************)
\* process.cwd() of the runs: /w
WorkingDirectories == { << "/", "w" >> }

File(text) == [kind |-> "file", text |-> text]

\* @import 'target'
ImportSingle(target) == AtImport \o << " ", "'" >> \o target \o << "'" >>

\* @import "target"
ImportDouble(target) == AtImport \o << " ", "\"" >> \o target \o << "\"" >>

\* /w/<name>.scss
InW(name) == << "/", "w", "/" >> \o name \o Scss

\* a parent with text before and after its import:
\*   /w/m.scss   x @import 'p'; y        /w/p.scss   k
DiskTextAround ==
    (InW(<< "m" >>) :> File(<< "x", " " >> \o ImportSingle(<< "p" >>)
                              \o << ";", " ", "y" >>))
    @@ (InW(<< "p" >>) :> File(<< "k" >>))

\* imports nested through subdirectories, with decoys where resolution
\* against the wrong directory would look:
\*   /w/m.scss       @import "d/p";x     /w/d/p.scss   @import "e/q";y
\*   /w/d/e/q.scss   z                   /w/e/q.scss   !
\*   /w/p.scss       ?
DiskNested ==
    (InW(<< "m" >>) :> File(ImportDouble(<< "d", "/", "p" >>) \o << ";", "x" >>))
    @@ (InW(<< "d", "/", "p" >>) :>
            File(ImportDouble(<< "e", "/", "q" >>) \o << ";", "y" >>))
    @@ (InW(<< "d", "/", "e", "/", "q" >>) :> File(<< "z" >>))
    @@ (InW(<< "e", "/", "q" >>) :> File(<< "!" >>))
    @@ (InW(<< "p" >>) :> File(<< "?" >>))

\* a subdirectory that has the name of the working directory:
\*   /w/d/w/m.scss   @import "p";        /w/d/w/p.scss   k
\*   /w/d/p.scss     !
DiskNamedLikeCwd ==
    (InW(<< "d", "/", "w", "/", "m" >>) :> File(ImportDouble(<< "p" >>) \o << ";" >>))
    @@ (InW(<< "d", "/", "w", "/", "p" >>) :> File(<< "k" >>))
    @@ (InW(<< "d", "/", "p" >>) :> File(<< "!" >>))

\* targets that exist in the other dialect only, and names that hold
\* ".scss" twice:
\*   /w/m.scss        @import 'p';       /w/p.sass        k
\*   /w/q.scss.sass   l                  /w/q.sass.scss   !
DiskDialects ==
    (InW(<< "m" >>) :> File(ImportSingle(<< "p" >>) \o << ";" >>))
    @@ ((<< "/", "w", "/", "p" >> \o Sass) :> File(<< "k" >>))
    @@ ((<< "/", "w", "/", "q" >> \o Scss \o Sass) :> File(<< "l" >>))
    @@ ((<< "/", "w", "/", "q" >> \o Sass \o Scss) :> File(<< "!" >>))

\* two imports in one file, the first with an import of its own:
\*   /w/m.scss   a@import 'p';b@import 'q';c
\*   /w/p.scss   k@import 'r';           /w/q.scss   l      /w/r.scss   n
DiskSiblings ==
    (InW(<< "m" >>) :> File(<< "a" >> \o ImportSingle(<< "p" >>) \o << ";", "b" >>
                              \o ImportSingle(<< "q" >>) \o << ";", "c" >>))
    @@ (InW(<< "p" >>) :> File(<< "k" >> \o ImportSingle(<< "r" >>) \o << ";" >>))
    @@ (InW(<< "q" >>) :> File(<< "l" >>))
    @@ (InW(<< "r" >>) :> File(<< "n" >>))

\* a file that imports itself and two files that import each other:
\*   /w/m.scss   x@import 'm';
\*   /w/p.scss   k@import 'q';           /w/q.scss   l@import 'p';
DiskCycles ==
    (InW(<< "m" >>) :> File(<< "x" >> \o ImportSingle(<< "m" >>) \o << ";" >>))
    @@ (InW(<< "p" >>) :> File(<< "k" >> \o ImportSingle(<< "q" >>) \o << ";" >>))
    @@ (InW(<< "q" >>) :> File(<< "l" >> \o ImportSingle(<< "p" >>) \o << ";" >>))

\* @import target, unquoted
ImportBare(target) == AtImport \o << " " >> \o target

\* line breaks of the three kinds, in a file with an import and in one without:
\*   /w/m.scss   a\n@import 'p';\r\nb\rc        /w/p.scss   k\nl
DiskLineBreaks ==
    (InW(<< "m" >>) :> File(<< "a", "\n" >> \o ImportSingle(<< "p" >>)
                              \o << ";", "\r", "\n", "b", "\r", "c" >>))
    @@ (InW(<< "p" >>) :> File(<< "k", "\n", "l" >>))

\* one target written in the forms the pattern accepts:
\*   /w/m.scss   @import p;x             /w/n.scss   @import  "p";x
\*   /w/t.scss   @import<TAB>'p';x       /w/p.scss   k
DiskTargetForms ==
    (InW(<< "m" >>) :> File(ImportBare(<< "p" >>) \o << ";", "x" >>))
    @@ (InW(<< "n" >>) :>
            File(AtImport \o << " ", " ", "\"", "p", "\"", ";", "x" >>))
    @@ (InW(<< "t" >>) :>
            File(AtImport \o << "\t", "'", "p", "'", ";", "x" >>))
    @@ (InW(<< "p" >>) :> File(<< "k" >>))

\* statements that no ";" follows directly:
\*   /w/m.scss   x@import 'p' ;y@import 'q'
\*   /w/p.scss   k                       /w/q.scss   l
DiskLooseSemicolons ==
    (InW(<< "m" >>) :> File(<< "x" >> \o ImportSingle(<< "p" >>)
                              \o << " ", ";", "y" >> \o ImportSingle(<< "q" >>)))
    @@ (InW(<< "p" >>) :> File(<< "k" >>))
    @@ (InW(<< "q" >>) :> File(<< "l" >>))

BaseDisks ==
    { DiskTextAround, DiskNested, DiskNamedLikeCwd, DiskDialects, DiskSiblings,
      DiskCycles, DiskLineBreaks, DiskTargetForms, DiskLooseSemicolons }

\* d without the file at path q
Without(d, q) == [r \in (DOMAIN d) \ { q } |-> d[r]]

\* d with the file at path q unreadable (permission denied)
Denied(d, q) == [d EXCEPT ![q] = [kind |-> "denied", text |-> << >>]]

\* the file systems of the runs: each base, and each base with one file
\* missing or unreadable
Disks ==
    BaseDisks
    \cup { Without(d, q) : << d, q >> \in
              { x \in BaseDisks \X UNION { DOMAIN b : b \in BaseDisks } :
                    x[2] \in DOMAIN x[1] } }
    \cup { Denied(d, q) : << d, q >> \in
              { x \in BaseDisks \X UNION { DOMAIN b : b \in BaseDisks } :
                    x[2] \in DOMAIN x[1] } }

\* a path without its last extension
WithoutExtension(q) ==
    IF Len(q) > 5 /\ SubSeq(q, Len(q) - 4, Len(q)) \in { Scss, Sass }
    THEN SubSeq(q, 1, Len(q) - 5) ELSE q

\* the ways a file of the file system is named in a call: absolute, relative
\* to the working directory, and each without the extension
NamesOf(q) ==
    LET relative == IF OccursAt(q, cwd \o << "/" >>, 1)
                    THEN Drop(q, Len(cwd) + 1) ELSE q
    IN { q, relative, WithoutExtension(q), WithoutExtension(relative) }

\* the paths the calls are made with: the names of the files, the names in
\* the other dialect, and a name nothing has
CallPaths ==
    UNION { NamesOf(q) \cup { ReplaceFirst(n, Sass, Scss) : n \in NamesOf(q) }
            : q \in DOMAIN disk }
    \cup { InW(<< "n", "o" >>) }

\* the accumulated text handed to read
Prefixes == { << >>, << "#" >> }

TopLevel == [from |-> << >>, target |-> << >>]

\* the host calls read(path, prefix)
ReadCall ==
    /\ call.op = "none"
    /\ \E path \in CallPaths, prefix \in Prefixes :
       \E r \in { Read(path, prefix, TopLevel, MaxDepth) } :
         call' = [op |-> "read", path |-> path, prefix |-> prefix,
                  kind |-> r.kind, text |-> r.text, code |-> r.code,
                  fetches |-> r.fetches, reads |-> r.reads]
    /\ UNCHANGED << pluginVars, cwd, disk >>

\* the host calls fetchFile(path)
FetchFileCall ==
    /\ call.op = "none"
    /\ \E path \in CallPaths :
       \E r \in { FetchFile(path) } :
         call' = [op |-> "fetchFile", path |-> path, prefix |-> << >>,
                  kind |-> r.kind, text |-> r.text, code |-> r.code,
                  fetches |-> r.attempts, reads |-> << >>]
    /\ UNCHANGED << pluginVars, cwd, disk >>

InitInliner ==
    /\ InitPlugin
    /\ options.importer = "undefined"
    /\ ~useCache
    /\ cwd \in WorkingDirectories
    /\ disk \in Disks
    /\ call = NoCall

NextInliner ==
    \/ ReadCall
    \/ FetchFileCall

SpecInliner == InitInliner /\ [][NextInliner]_vars

(***************************************************************************)
(* Properties of the transform pipeline                                    *)
(***************************************************************************)
IsPrefix(s, t) == Len(s) <= Len(t) /\ \A i \in 1..Len(s) : s[i] = t[i]

\* the pass of file f ended with the success branch of the callback
Succeeded(f) ==
    /\ delivered[f].kind = "success"
    /\ pc[f] \in { "writeStaticCache", "resolved" }

\* C1: a pass whose cache check reported the cached artifact valid makes no
\* call of sass.render and no call of extractCSSDependencies
CacheHitMakesNoCalls ==
    \A f \in Files :
        cached[f] = "hit" => renderCalls[f] = 0 /\ extractCalls[f] = 0

\* a pass returned on a cache hit while another file's pass did compile
CacheHitMakesNoCallsWitness ==
    \E f, g \in Files :
        /\ cached[f] = "hit" /\ pc[f] = "returned"
        /\ renderCalls[g] = 1 /\ extractCalls[g] = 1

\* C2: when the callback reports an error, the contents are the empty string,
\* exactly one message "<message>\n      at <origin>:<line>:<column>" is
\* appended (origin: the file's absolute path for 'stdin', else err.file), and
\* the promise resolves; no promise is ever rejected
CompileErrorIsRecorded ==
    \A f \in Files :
        /\ promise[f] # "rejected"
        /\ (pc[f] = "resolved" /\ delivered[f].kind = "error") =>
              /\ contents[f] = << >>
              /\ promise[f] = "resolved"
              /\ errors[f] =
                    Append(before[f].errors,
                           delivered[f].message \o << "\n", "      at " >>
                             \o (IF delivered[f].file = << "stdin" >>
                                 THEN AbsPath(f) ELSE delivered[f].file)
                             \o << ":" >> \o NumberToString(delivered[f].line)
                             \o << ":" >> \o NumberToString(delivered[f].column))

\* a compile error located in the inline source was recorded on a file that
\* already carried an error
CompileErrorIsRecordedWitness ==
    \E f \in Files :
        /\ pc[f] = "resolved" /\ delivered[f].kind = "error"
        /\ delivered[f].file = << "stdin" >>
        /\ Len(errors[f]) = 2

\* C3: on success the file's contents and source map are the CSS and the map
\* of the compile of that file's own options, no error is appended, and a
\* file whose compile is in flight still holds what it loaded, whatever other
\* transforms are in flight and in whatever order the callbacks arrive
OwnResultIsApplied ==
    \A f \in Files :
        /\ Succeeded(f) =>
              /\ contents[f] = << "css(" >> \o renderOptions[f].data \o << ")" >>
              /\ sourceMap[f] = << "map(" >> \o AbsPath(f) \o << ")" >>
              /\ errors[f] = before[f].errors
        /\ pc[f] = "waiting" =>
              /\ contents[f] = renderOptions[f].data
              /\ sourceMap[f] = NoText

\* a file received its result while the other file's compile was in flight
OwnResultIsAppliedWitness ==
    \E f, g \in Files :
        /\ pc[f] = "resolved" /\ delivered[f].kind = "success"
        /\ pc[g] = "waiting"
        /\ contents[f] # contents[g]

StepsRunInOrder ==
    \A f \in Files :
        IsPrefix(steps[f], << "cacheCheck", "loadContents", "extractCSSDependencies",
                              "render", "callback", "apply" >>)

\* a transform ran through all of its steps
StepsRunInOrderWitness ==
    \E f \in Files : Len(steps[f]) = 6 /\ pc[f] = "resolved"

\* C6 as stated: the file is marked cache-bust-eligible after the cache check,
\* on a hit as on a miss
BustFlagSetAfterEveryCheck ==
    \A f \in Files : cached[f] # "unknown" => bustCSSCache[f]

\* C6 amended: the file is marked cache-bust-eligible after a cache check that
\* reported a miss; after a hit the flag is what it was before the call
BustFlagSetOnMissOnly ==
    \A f \in Files :
        /\ cached[f] = "miss" => bustCSSCache[f]
        /\ cached[f] = "hit" => bustCSSCache[f] = before[f].bustCSSCache

\* one file had a hit and the other a miss
BustFlagSetOnMissOnlyWitness ==
    \E f, g \in Files :
        /\ cached[f] = "hit" /\ ~bustCSSCache[f]
        /\ cached[g] = "miss" /\ bustCSSCache[g]

\* C7 as stated: after a cache hit the file is as it was when transform was
\* entered: no side effects
CacheHitLeavesFileUnchanged ==
    \A f \in Files : cached[f] = "hit" => Snapshot(f) = before[f]

\* C7 amended: after a cache hit the file's contents, source map, error list,
\* analysis.dependencies, cssDependencies and bustCSSCache are what they were
\* when transform was entered; the one effect of the call is the string
\* dependency "fuse-box-css", registered before the cache is consulted
CacheHitOnlyAddsStringDependency ==
    \A f \in Files :
        cached[f] = "hit" =>
            /\ Snapshot(f) =
                  [before[f] EXCEPT !.stringDependencies = @ \cup { "fuse-box-css" }]
            /\ "fuse-box-css" \in stringDependencies[f]

\* a pass returned on a cache hit for a file that carried an error
CacheHitOnlyAddsStringDependencyWitness ==
    \E f \in Files :
        /\ cached[f] = "hit" /\ pc[f] = "returned"
        /\ errors[f] # << >>
        /\ before[f].stringDependencies = { }

(***************************************************************************)
(* Properties of the import inliner                                        *)
(***************************************************************************)
\* s without its whitespace characters
WithoutWhitespace(s) == SelectSeq(s, LAMBDA c : c \notin Whitespace)

RECURSIVE InPlace(_, _, _, _)
\* the text s of file from index i on, each import statement (with the ";"
\* that follows it) replaced where it stands by the inlined text of its target
InPlace(file, s, i, depth) ==
    IF i > Len(s) \/ depth = 0 THEN << >>
    ELSE LET e == MatchEnd(s, i) IN
         IF e = 0 THEN << s[i] >> \o InPlace(file, s, i + 1, depth)
         ELSE LET target == PathToRead(file, PathInImport(SubSeq(s, i, e)))
                  after  == IF e < Len(s) /\ s[e + 1] = ";" THEN e + 2 ELSE e + 1
              IN InPlace(target, FetchFile(WithExtension(target)).text, 1, depth - 1)
                     \o InPlace(file, s, after, depth)

\* C8 as stated: read returns the file's text with each @import statement
\* replaced, where the statement stood, by the inlined contents of its target,
\* so that the text after an import follows the imported contents (compared
\* up to whitespace, for calls without a prefix)
ReadInlinesInPlace ==
    (call.op = "read" /\ call.kind = "ok" /\ call.prefix = << >>) =>
        WithoutWhitespace(call.text) =
            WithoutWhitespace(InPlace(call.path,
                                      FetchFile(WithExtension(call.path)).text,
                                      1, MaxDepth))

\* the directory of the file an import statement stands in, as fs sees it
ContainingDirectory(from) ==
    IF DirectoryPart(from) = << >> THEN cwd ELSE Absolute(DirectoryPart(from))

\* C9 as stated: at every depth a relative import target is resolved against
\* the directory of the file that contains the statement, with .scss appended
\* when the last segment of the target has no dot
RelativeImportsResolveAgainstContainingFile ==
    call.op = "read" =>
        \A n \in 1..Len(call.reads) :
            LET entry == call.reads[n] IN
            (entry.target # << >> /\ entry.target[1] # "/") =>
                Absolute(entry.file) =
                    WithExtension(Normalize(ContainingDirectory(entry.from)
                                            \o << "/" >> \o entry.target))

\* whether path ends in ".scss"
EndsInScss(path) == Len(path) >= 5 /\ SubSeq(path, Len(path) - 4, Len(path)) = Scss

\* the reference of fetchFile: the contents of the path when it exists; else,
\* for a path that ends in .scss, the contents of the path with that last
\* extension swapped for .sass when that exists; else the empty string
FetchReference(path) ==
    LET swapped == SubSeq(path, 1, Len(path) - 5) \o Sass IN
    IF ReadFileSync(path).kind = "file" THEN ReadFileSync(path).text
    ELSE IF EndsInScss(path) /\ ReadFileSync(swapped).kind = "file"
         THEN ReadFileSync(swapped).text
    ELSE << >>

\* C10 as stated: fetchFile(p) equals the reference for every path and file
\* system, raises nothing and attempts exactly one fallback read when p is
\* missing (file systems whose only read failure is a missing file)
FetchFileMatchesReference ==
    (/\ call.op = "fetchFile"
     /\ \A q \in DOMAIN disk : disk[q].kind = "file"
     /\ ReadFileSync(call.path).kind \in { "file", "ENOENT" }) =>
        /\ call.kind = "ok"
        /\ call.text = FetchReference(call.path)
        /\ Len(call.fetches) = IF ReadFileSync(call.path).kind = "file" THEN 1 ELSE 2

\* C11 as stated: a read failure other than "file does not exist", on the
\* direct read or on the fallback read, is propagated out of fetchFile and out
\* of read; only a missing file degrades to empty contents
ReadFailuresPropagate ==
    call.op \in { "fetchFile", "read" } =>
        \A n \in 1..Len(call.fetches) :
            LET outcome == ReadFileSync(call.fetches[n]).kind IN
            outcome \notin { "file", "ENOENT" } =>
                call.kind = "throw" /\ call.code = outcome

\* C12 as stated: read(f, p) = p ++ read(f, ""), the prefix occurs once, at
\* the start of the result
PrefixOccursOnceAtStart ==
    (call.op = "read" /\ call.kind = "ok") =>
        call.text =
            call.prefix \o Read(call.path, << >>, TopLevel, MaxDepth).text

RECURSIVE OwnText(_, _)
\* the text s from index i on without the import statements that a ";"
\* follows directly
OwnText(s, i) ==
    IF i > Len(s) THEN << >>
    ELSE LET e == MatchEnd(s, i) IN
         IF e = 0 \/ e = Len(s) THEN << s[i] >> \o OwnText(s, i + 1)
         ELSE IF s[e + 1] # ";" THEN << s[i] >> \o OwnText(s, i + 1)
         ELSE OwnText(s, e + 2)

RECURSIVE SourceOrder(_, _)
RECURSIVE SourceOrderOfImports(_, _, _, _)
\* the texts of the targets of statements n.. of file, each followed by the
\* texts of its own imports, in the order of the statements
SourceOrderOfImports(file, sassImports, n, depth) ==
    IF n > Len(sassImports) THEN << >>
    ELSE SourceOrder(PathToRead(file, PathInImport(sassImports[n])), depth - 1)
             \o SourceOrderOfImports(file, sassImports, n + 1, depth)

\* the own text of file, then what its imports bring in, depth first
SourceOrder(file, depth) ==
    IF depth = 0 THEN << >>
    ELSE LET text == FetchFile(WithExtension(file)).text IN
         OwnText(text, 1)
             \o SourceOrderOfImports(file, Match(text), 1, depth)

\* C13: the contents of the target of an earlier import statement come before
\* those of a later one, and what a target's own imports bring in comes after
\* the target's text and before the next sibling's (compared up to
\* whitespace, for calls without a prefix)
InlinedInSourceOrder ==
    (call.op = "read" /\ call.kind = "ok" /\ call.prefix = << >>) =>
        WithoutWhitespace(call.text) =
            WithoutWhitespace(SourceOrder(call.path, MaxDepth))

\* m imports p and q, p imports r: a c and the texts of p, r, q in that order
InlinedInSourceOrderWitness ==
    /\ call.op = "read" /\ call.kind = "ok" /\ call.prefix = << >>
    /\ Len(call.reads) = 4
    /\ WithoutWhitespace(call.text) = << "a", "b", "c", "k", "n", "l" >>

\* CR and LF
LineBreaks == { "\n", "\r" }

\* s without its line-break characters
WithoutLineBreaks(s) == SelectSeq(s, LAMBDA c : c \notin LineBreaks)

\* C14 as stated: the text read returns holds no line break; for a source
\* without import statements it is the prefix followed by the source with its
\* line breaks removed
ReadStripsLineBreaks ==
    (call.op = "read" /\ call.kind = "ok") =>
        LET source == FetchFile(WithExtension(call.path)).text IN
        /\ \A n \in 1..Len(call.text) : call.text[n] \notin LineBreaks
        /\ Match(source) = << >> =>
               call.text = call.prefix \o WithoutLineBreaks(source)

\* the target an import statement names: what the pattern captures, the text
\* between the quotes or the unquoted text
TargetOf(importStatement) ==
    LET k == NextNotIn(importStatement, Len(AtImport) + 1, Whitespace) IN
    IF importStatement[k] \in { "'", "\"" }
    THEN SubSeq(importStatement, k + 1, Len(importStatement) - 1)
    ELSE SubSeq(importStatement, k, Len(importStatement))

\* C17 as stated: for every import statement the scan matched in the file, in
\* whatever form the target is written, read fetches the file that the target
\* string resolves to
EveryFormReadsItsTarget ==
    (call.op = "read" /\ call.kind = "ok") =>
        LET sassImports == Match(FetchFile(WithExtension(call.path)).text) IN
        \A i \in 1..Len(sassImports) :
            \E n \in 1..Len(call.reads) :
                /\ call.reads[n].from = call.path
                /\ call.reads[n].file =
                       WithExtension(PathToRead(call.path, TargetOf(sassImports[i])))

\* C18 as stated: none of the import statements the scan matched, in the
\* top-level file or in an inlined one, is left in the text read returns
MatchedStatementsAreRemoved ==
    (call.op = "read" /\ call.kind = "ok") =>
        \A n \in 1..Len(call.reads) :
            LET sassImports == Match(FetchFile(call.reads[n].file).text) IN
            \A i \in 1..Len(sassImports) :
                IndexOf(call.text, sassImports[i]) = 0

\* the paths the import statements of file hand to the recursive read
Targets(file) ==
    LET fetched == FetchFile(WithExtension(file)) IN
    IF fetched.kind = "throw" THEN { }
    ELSE { PathToRead(file, PathInImport(Match(fetched.text)[i])) :
               i \in 1..Len(Match(fetched.text)) }

RECURSIVE Closure(_, _)
\* reached with what it leads to in up to k more imports
Closure(reached, k) ==
    IF k = 0 THEN reached
    ELSE Closure(reached \cup UNION { Targets(g) : g \in reached }, k - 1)

\* the paths read on the way down from the import statements of file
Descendants(file) == Closure(Targets(file), Cardinality(DOMAIN disk) + 1)

\* the import graph below file holds a cycle
Cyclic(file) ==
    \E g \in { file } \cup Descendants(file) : g \in Descendants(g)

\* C16: read comes to an end on an import graph without a cycle, normally or
\* with a read failure; on a graph with a cycle it never returns normally, it
\* is ended by a read failure or by the exhaustion of the call stack
CyclesExhaustTheStack ==
    call.op = "read" =>
        /\ ~Cyclic(call.path) => call.code # "RangeError"
        /\ Cyclic(call.path) => call.kind = "throw"

\* a read that went round a cycle until the stack was used up
CyclesExhaustTheStackWitness ==
    /\ call.op = "read" /\ call.kind = "throw" /\ call.code = "RangeError"
    /\ Cyclic(call.path)
    /\ Len(call.reads) > MaxDepth
    /\ \E n \in 2..Len(call.reads) :
           Absolute(call.reads[n].file) = Absolute(call.reads[1].file)

(***************************************************************************)
(* Properties of the options object                                        *)
(***************************************************************************)
RECURSIVE Prelude(_)
\* the prelude the configured resources stand for: the texts of the files
\* they name, in order
Prelude(resources) ==
    IF resources = << >> THEN << >>
    ELSE << "resource(" >> \o Head(resources) \o << ")" >>
             \o Prelude(Tail(resources))

\* the stages at which the options object is built and the file still holds
\* its source
Compiling(f) == pc[f] \in { "extractCSSDependencies", "render", "waiting" }

\* C15 as stated: when the resources option is configured, the data of every
\* compile is the resources prelude followed by the file's contents
ResourcesArePrepended ==
    \A f \in Files :
        (options.resources # NoList /\ Compiling(f)) =>
            renderOptions[f].data = Prelude(options.resources) \o contents[f]

\* the include directories of the configuration, none when it names none
ConfiguredIncludePaths ==
    IF options.includePaths = NoList THEN << >> ELSE options.includePaths

\* C19: the includePaths of every options object built are the configured
\* directories in their order followed by the file's own directory, and no
\* step changes the plugin's configuration
IncludePathsAreBuiltFresh ==
    /\ [](\A f \in Files :
            renderOptions[f] # NoOptions =>
                renderOptions[f].includePaths =
                    ConfiguredIncludePaths \o << AbsDir(f) >>)
    /\ [][options' = options]_vars

\* both files were compiled under a configuration with two directories, one
\* of them for the second time
IncludePathsAreBuiltFreshWitness ==
    /\ Len(ConfiguredIncludePaths) = 2
    /\ passes["f1"] = 2 /\ pc["f1"] = "waiting"
    /\ passes["f2"] = 1 /\ pc["f2"] = "resolved"
    /\ renderOptions["f1"].includePaths # renderOptions["f2"].includePaths

\* the url starts with the scheme http: or https:
HasHttpScheme(url) == url[1] \in { "http:", "https:" }

\* the macro table as described: the defaults in their order, each with the
\* user's value where the user names the same key, then the user's other macros
MacroTable ==
    LET user == IF options.macros = NoMacros THEN << >> ELSE options.macros
        Value(pair) == IF KeyIndex(user, pair[1]) = 0 THEN pair[2]
                       ELSE user[KeyIndex(user, pair[1])][2]
    IN [i \in 1..Len(DefaultMacro) |->
            << DefaultMacro[i][1], Value(DefaultMacro[i]) >>]
       \o SelectSeq(user, LAMBDA pair : KeyIndex(DefaultMacro, pair[1]) = 0)

\* C20 as stated: the built-in hook is set only when the importer option is
\* true, a user's function is passed on as it is; the hook hands back a url
\* with the scheme http: or https: untouched, and any other url with the
\* macros substituted in table order, normalized, and replaced by the path
\* override when there is one
ImportHookAsDescribed ==
    /\ \A f \in Files :
         renderOptions[f] # NoOptions =>
             renderOptions[f].importer =
                 IF options.importer = "true" THEN "builtin" ELSE options.importer
    /\ imported # NoImport =>
         IF HasHttpScheme(imported.url)
         THEN imported.key = "url" /\ imported.value = imported.url
         ELSE /\ imported.key = "file"
              /\ imported.value =
                     IF imported.override # NoText THEN imported.override
                     ELSE Normalize(ReplaceMacros(imported.url, MacroTable))

====
